---- MODULE Spec2Model ----
(***************************************************************************)
(* Model of the Huffman codec of src/huffman.py: one HuffmanCoding        *)
(* instance (heap, codes, reverse_mapping) and its two public methods,    *)
(* compress_bytes and decompress_bytes, with every helper they call.      *)
(*                                                                         *)
(* Representation.  bytes / bytearray: sequences over 0..255.  A Python   *)
(* str of "0"/"1" characters: a sequence over {0, 1}.  A dict: a function  *)
(* on its key set; the frequency dict, whose iteration order the code      *)
(* depends on, is a sequence of <<key, count>> pairs in insertion order.   *)
(* An optional value is <<>> (Python None) or <<x>>.                       *)
(***************************************************************************)
EXTENDS Integers, Sequences, FiniteSets, TLC

VARIABLES heap, codes, reverse_mapping, calls, last, root

vars == <<heap, codes, reverse_mapping, calls, last, root>>

-----------------------------------------------------------------------------
(* Bounds of the model.                                                    *)

\* longest input handed to compress_bytes
MaxLen == 4
\* byte values that occur in inputs: 0 .. NumSymbols-1
NumSymbols == 4
\* SpecReuse: calls made on one HuffmanCoding instance before it is dropped
MaxCalls == 2
\* SpecReuse: longest input handed to compress_bytes
ReuseLen == 3

-----------------------------------------------------------------------------
(* Python values.                                                          *)

None == <<>>

Some(x) == <<x>>

EmptyDict == <<>>

Put(d, k, v) == [x \in (DOMAIN d) \cup {k} |-> IF x = k THEN v ELSE d[x]]

\* Python's s[a:b] for 0 <= a, on a sequence (0-based, b exclusive, clipped)
Slice(s, a, b) ==
  LET hi == IF b > Len(s) THEN Len(s) ELSE b
  IN  IF a >= hi THEN <<>> ELSE [i \in 1..(hi - a) |-> s[a + i]]

RECURSIVE Concat(_)
\* "".join(list) / concatenation of a list of sequences
Concat(ss) == IF ss = <<>> THEN <<>> ELSE Head(ss) \o Concat(Tail(ss))

Zeros(n) == [i \in 1..n |-> 0]

\* "{0:08b}".format(v) / f"{byte:08b}": at least 8 binary digits, MSB first
RECURSIVE Bin(_)
Bin(v) == IF v < 2 THEN <<v>> ELSE Append(Bin(v \div 2), v % 2)

Format08b(v) == LET b == Bin(v) IN Zeros(IF Len(b) < 8 THEN 8 - Len(b) ELSE 0) \o b

\* int(bits, 2)
RECURSIVE IntBase2(_)
IntBase2(bits) ==
  IF bits = <<>> THEN 0
  ELSE 2 * IntBase2(SubSeq(bits, 1, Len(bits) - 1)) + bits[Len(bits)]

\* a ^ b on two bytes
BitXor(a, b) ==
  LET x == Format08b(a)
      y == Format08b(b)
  IN  IntBase2([i \in 1..8 |-> IF x[i] = y[i] THEN 0 ELSE 1])

\* n.to_bytes(k, byteorder='little')
RECURSIVE ToBytesLittle(_, _)
ToBytesLittle(n, k) == IF k = 0 THEN <<>> ELSE <<n % 256>> \o ToBytesLittle(n \div 256, k - 1)

\* n.to_bytes(4, byteorder='big')
ToBytes4(n) == LET le == ToBytesLittle(n, 4) IN [i \in 1..4 |-> le[5 - i]]

\* int.from_bytes(b, byteorder='big')
RECURSIVE FromBytes(_)
FromBytes(b) ==
  IF b = <<>> THEN 0
  ELSE 256 * FromBytes(SubSeq(b, 1, Len(b) - 1)) + b[Len(b)]

-----------------------------------------------------------------------------
(* HuffmanNode and the heapq min-heap.                                     *)

\* HuffmanNode(char, freq): char is None for a merged node
HuffmanNode(char, freq) == [char |-> char, freq |-> freq, left |-> None, right |-> None]

\* HuffmanNode.__lt__
Lt(a, b) == a.freq < b.freq

\* heapq._siftdown(heap, startpos, pos), positions 0-based
RECURSIVE SiftdownLoop(_, _, _, _)
SiftdownLoop(h, startpos, pos, newitem) ==
  IF pos > startpos
  THEN LET parentpos == (pos - 1) \div 2
           parent == h[parentpos + 1]
       IN  IF Lt(newitem, parent)
           THEN SiftdownLoop([h EXCEPT ![pos + 1] = parent], startpos, parentpos, newitem)
           ELSE [h EXCEPT ![pos + 1] = newitem]
  ELSE [h EXCEPT ![pos + 1] = newitem]

Siftdown(h, startpos, pos) == SiftdownLoop(h, startpos, pos, h[pos + 1])

\* the while loop of heapq._siftup: bubble the smaller child up to a leaf
RECURSIVE SiftupLoop(_, _, _)
SiftupLoop(h, pos, childpos) ==
  IF childpos < Len(h)
  THEN LET rightpos == childpos + 1
           c == IF rightpos < Len(h) /\ ~Lt(h[childpos + 1], h[rightpos + 1])
                THEN rightpos ELSE childpos
       IN  SiftupLoop([h EXCEPT ![pos + 1] = h[c + 1]], c, 2 * c + 1)
  ELSE [h |-> h, pos |-> pos]

\* heapq._siftup(heap, pos)
Siftup(h, pos) ==
  LET newitem == h[pos + 1]
      r == SiftupLoop(h, pos, 2 * pos + 1)
  IN  Siftdown([r.h EXCEPT ![r.pos + 1] = newitem], pos, r.pos)

\* heapq.heappush(heap, item)
HeapPush(h, item) == Siftdown(Append(h, item), 0, Len(h))

\* heapq.heappop(heap) on a non-empty heap: the item returned and the heap left
HeapPop(h) ==
  LET lastelt == h[Len(h)]
      rest == SubSeq(h, 1, Len(h) - 1)
  IN  IF rest # <<>>
      THEN [item |-> h[1], heap |-> Siftup([rest EXCEPT ![1] = lastelt], 0)]
      ELSE [item |-> lastelt, heap |-> rest]

-----------------------------------------------------------------------------
(* HuffmanCoding helpers.                                                  *)

\* make_frequency_dict: <<key, count>> pairs in order of first occurrence
RECURSIVE MakeFrequencyDict(_)
MakeFrequencyDict(text_bytes) ==
  IF text_bytes = <<>> THEN <<>>
  ELSE LET frequency == MakeFrequencyDict(SubSeq(text_bytes, 1, Len(text_bytes) - 1))
           character == text_bytes[Len(text_bytes)]
       IN  IF \E i \in DOMAIN frequency : frequency[i][1] = character
           THEN [i \in DOMAIN frequency |->
                   IF frequency[i][1] = character
                   THEN <<character, frequency[i][2] + 1>> ELSE frequency[i]]
           ELSE Append(frequency, <<character, 1>>)

\* make_heap: pushes one leaf per key, in iteration order, onto self.heap
RECURSIVE MakeHeap(_, _)
MakeHeap(h, frequency) ==
  IF frequency = <<>> THEN h
  ELSE MakeHeap(HeapPush(h, HuffmanNode(Some(Head(frequency)[1]), Head(frequency)[2])),
                Tail(frequency))

\* a variant of MergeOnce: the second-extracted node becomes the left child
MergeOnceSwapped(h) ==
  LET p1 == HeapPop(h)
      p2 == HeapPop(p1.heap)
      node1 == p1.item
      node2 == p2.item
      merged == [HuffmanNode(None, node1.freq + node2.freq)
                   EXCEPT !.left = Some(node2), !.right = Some(node1)]
  IN  HeapPush(p2.heap, merged)

\* one iteration of the while loop of merge_nodes
MergeOnce(h) ==
  LET p1 == HeapPop(h)
      p2 == HeapPop(p1.heap)
      node1 == p1.item
      node2 == p2.item
      merged == [HuffmanNode(None, node1.freq + node2.freq)
                   EXCEPT !.left = Some(node1), !.right = Some(node2)]
  IN  HeapPush(p2.heap, merged)

\* merge_nodes
RECURSIVE MergeNodes(_)
MergeNodes(h) == IF Len(h) > 1 THEN MergeNodes(MergeOnce(h)) ELSE h

\* a variant of MakeCodesHelper: a symbol that already has a code keeps it
\* (dict.setdefault in place of the assignment)
RECURSIVE MakeCodesHelperKeep(_, _, _)
MakeCodesHelperKeep(t, node, current_code) ==
  IF node = None THEN t
  ELSE LET n == node[1]
       IN  IF n.char # None
           THEN IF n.char[1] \in DOMAIN t.codes THEN t
                ELSE [codes |-> Put(t.codes, n.char[1], current_code),
                      reverse_mapping |-> Put(t.reverse_mapping, current_code, n.char[1])]
           ELSE MakeCodesHelperKeep(MakeCodesHelperKeep(t, n.left, Append(current_code, 0)),
                                    n.right, Append(current_code, 1))

\* make_codes_helper(root, current_code) on the tables t = [codes, reverse_mapping];
\* node is None or <<HuffmanNode>>
RECURSIVE MakeCodesHelper(_, _, _)
MakeCodesHelper(t, node, current_code) ==
  IF node = None THEN t
  ELSE LET n == node[1]
       IN  IF n.char # None
           THEN [codes |-> Put(t.codes, n.char[1], current_code),
                 reverse_mapping |-> Put(t.reverse_mapping, current_code, n.char[1])]
           ELSE MakeCodesHelper(MakeCodesHelper(t, n.left, Append(current_code, 0)),
                                n.right, Append(current_code, 1))

\* get_encoded_text
GetEncodedText(cds, text_bytes) ==
  Concat([i \in DOMAIN text_bytes |-> cds[text_bytes[i]]])

\* pad_encoded_text
PadEncodedText(encoded_text) ==
  LET extra_padding == 8 - (Len(encoded_text) % 8)
  IN  Format08b(extra_padding) \o encoded_text \o Zeros(extra_padding)

\* get_byte_array (the length is a multiple of 8 whenever it is called)
GetByteArray(padded_encoded_text) ==
  [i \in 1..(Len(padded_encoded_text) \div 8) |->
     IntBase2(SubSeq(padded_encoded_text, 8 * (i - 1) + 1, 8 * i))]

\* truthiness of an optional str: None and "" are false
Truthy(password) == password # None /\ password[1] # <<>>

\* simple_encrypt_decrypt; password is None or <<key bytes>>
SimpleEncryptDecrypt(data_bytes, password) ==
  IF ~Truthy(password) THEN data_bytes
  ELSE LET key == password[1]
           key_len == Len(key)
       IN  [i \in DOMAIN data_bytes |-> BitXor(data_bytes[i], key[((i - 1) % key_len) + 1])]

-----------------------------------------------------------------------------
(* Library conversions used by the container: pickle and SHA-256.          *)

\* pickle's encoding of a non-negative int: BININT1 (K) below 256, else BININT2 (M)
SaveInt(v) == IF v < 256 THEN <<75, v>> ELSE <<77, v % 256, (v \div 256) % 256>>

\* pickle.dumps(frequency), protocol 4, for a dict of small ints: PROTO 4,
\* a FRAME (with its 8-byte little-endian length) when the payload has 4 bytes
\* or more, EMPTY_DICT, MEMOIZE, the items (one item: k v SETITEM; several:
\* MARK k v ... SETITEMS), STOP
PickleDumps(frequency) ==
  LET items == Concat([i \in DOMAIN frequency |->
                         SaveInt(frequency[i][1]) \o SaveInt(frequency[i][2])])
      body == IF Len(frequency) = 0 THEN <<>>
              ELSE IF Len(frequency) = 1 THEN items \o <<115>>
              ELSE <<40>> \o items \o <<117>>
      payload == <<125, 148>> \o body \o <<46>>
      frame == IF Len(payload) >= 4
               THEN <<149>> \o ToBytesLittle(Len(payload), 8)
               ELSE <<>>
  IN  <<128, 4>> \o frame \o payload

\* the ints at the head of an opcode stream: [ints, rest]
RECURSIVE LoadInts(_, _)
LoadInts(s, acc) ==
  IF Len(s) >= 2 /\ s[1] = 75 THEN LoadInts(Slice(s, 2, Len(s)), Append(acc, s[2]))
  ELSE IF Len(s) >= 3 /\ s[1] = 77
       THEN LoadInts(Slice(s, 3, Len(s)), Append(acc, s[2] + 256 * s[3]))
       ELSE [ints |-> acc, rest |-> s]

\* dict.__setitem__ on the ordered frequency dict
SetItem(frequency, k, v) ==
  IF \E i \in DOMAIN frequency : frequency[i][1] = k
  THEN [i \in DOMAIN frequency |-> IF frequency[i][1] = k THEN <<k, v>> ELSE frequency[i]]
  ELSE Append(frequency, <<k, v>>)

RECURSIVE SetItems(_, _)
SetItems(frequency, ints) ==
  IF Len(ints) < 2 THEN frequency
  ELSE SetItems(SetItem(frequency, ints[1], ints[2]), Slice(ints, 2, Len(ints)))

\* pickle.loads(freq_dump) for the dumps above: [ok, value]; ok is FALSE where
\* the unpickler raises (truncated or foreign data)
PickleLoads(freq_dump) ==
  LET bad == [ok |-> FALSE, value |-> <<>>]
      framed == Len(freq_dump) >= 3 /\ freq_dump[3] = 149
      frame_len == FromBytes([i \in 1..8 |-> Slice(freq_dump, 3, 11)[9 - i]])
      payload == IF framed THEN Slice(freq_dump, 11, Len(freq_dump))
                 ELSE Slice(freq_dump, 2, Len(freq_dump))
      marked == Len(payload) >= 3 /\ payload[3] = 40
      r == LoadInts(Slice(payload, IF marked THEN 3 ELSE 2, Len(payload)), <<>>)
  IN  IF Slice(freq_dump, 0, 2) # <<128, 4>> THEN bad
      ELSE IF framed /\ (Len(freq_dump) < 11 \/ frame_len # Len(payload)) THEN bad
      ELSE IF Slice(payload, 0, 2) # <<125, 148>> THEN bad
      ELSE IF marked
           THEN IF r.rest = <<117, 46>> /\ Len(r.ints) % 2 = 0
                THEN [ok |-> TRUE, value |-> SetItems(<<>>, r.ints)] ELSE bad
           ELSE IF r.ints = <<>> /\ r.rest = <<46>> THEN [ok |-> TRUE, value |-> <<>>]
           ELSE IF Len(r.ints) = 2 /\ r.rest = <<115, 46>>
                THEN [ok |-> TRUE, value |-> SetItems(<<>>, r.ints)] ELSE bad

RECURSIVE WeightedSum(_, _)
WeightedSum(data, i) ==
  IF data = <<>> THEN 0
  ELSE data[Len(data)] * (Len(data) + i) + WeightedSum(SubSeq(data, 1, Len(data) - 1), i)

\* hashlib.sha256(data).digest(): the model keeps what the code relies on, a
\* fixed function of the bytes whose result has 32 bytes; the mixing below
\* stands for the hash and separates the passwords of the model
Sha256Digest(data) ==
  [i \in 1..32 |-> (17 * i + 29 * Len(data) + WeightedSum(data, i)) % 256]

-----------------------------------------------------------------------------
(* The two public methods.  self = [heap, codes, reverse_mapping]; a call   *)
(* yields the instance as the call leaves it, how the call ended (status   *)
(* "ok" or the exception raised) and the bytes returned.  The remaining    *)
(* fields record locals of the call: root (make_codes), step (the highest   *)
(* numbered step of the method's comments that was started) and            *)
(* current_code (the decode loop's candidate when the loop ended), and     *)
(* frequency, the table the call built or loaded (empty before that).      *)

Outcome(self, status, value, rt, step, current_code, frequency) ==
  [self |-> self, status |-> status, value |-> value, root |-> rt,
   step |-> step, current_code |-> current_code, frequency |-> frequency]

\* make_codes: pops the root and fills the code tables; on an empty heap
\* heappop raises IndexError
MakeCodes(self) ==
  IF self.heap = <<>> THEN [ok |-> FALSE, self |-> self, root |-> None]
  ELSE LET p == HeapPop(self.heap)
           t == MakeCodesHelper([codes |-> self.codes,
                                 reverse_mapping |-> self.reverse_mapping],
                                Some(p.item), <<>>)
       IN  [ok |-> TRUE,
            self |-> [heap |-> p.heap, codes |-> t.codes,
                      reverse_mapping |-> t.reverse_mapping],
            root |-> Some(p.item)]

\* a variant of Header: the length field written before the digest
HeaderLengthFirst(frequency, password) ==
  LET has_password == IF Truthy(password) THEN <<1>> ELSE <<0>>
      pass_hash == IF Truthy(password) THEN Sha256Digest(password[1]) ELSE Zeros(32)
      freq_dump == PickleDumps(frequency)
      freq_len == ToBytes4(Len(freq_dump))
  IN  has_password \o freq_len \o pass_hash \o freq_dump

\* the header of compress_bytes, step 5
Header(frequency, password) ==
  LET has_password == IF Truthy(password) THEN <<1>> ELSE <<0>>
      pass_hash == IF Truthy(password) THEN Sha256Digest(password[1]) ELSE Zeros(32)
      freq_dump == PickleDumps(frequency)
      freq_len == ToBytes4(Len(freq_dump))
  IN  has_password \o pass_hash \o freq_len \o freq_dump

\* compress_bytes(file_bytes, password)
CompressBytes(self, file_bytes, password) ==
  LET frequency == MakeFrequencyDict(file_bytes)
      built == [self EXCEPT !.heap = MergeNodes(MakeHeap(self.heap, frequency))]
      mc == MakeCodes(built)
  IN  IF ~mc.ok THEN Outcome(mc.self, "IndexError", <<>>, None, 2, <<>>, frequency)
      ELSE LET encoded_text == GetEncodedText(mc.self.codes, file_bytes)
               padded_encoded_text == PadEncodedText(encoded_text)
               b == GetByteArray(padded_encoded_text)
               final_body == SimpleEncryptDecrypt(b, password)
           IN  Outcome(mc.self, "ok", Header(frequency, password) \o final_body,
                       mc.root, 5, <<>>, frequency)

\* step 9 of decompress_bytes: the greedy decode loop; [decoded_bytes, current_code]
RECURSIVE Decode(_, _, _, _)
Decode(rm, encoded_text, decoded_bytes, current_code) ==
  IF encoded_text = <<>>
  THEN [decoded_bytes |-> decoded_bytes, current_code |-> current_code]
  ELSE LET cc == Append(current_code, Head(encoded_text))
       IN  IF cc \in DOMAIN rm
           THEN Decode(rm, Tail(encoded_text), Append(decoded_bytes, rm[cc]), <<>>)
           ELSE Decode(rm, Tail(encoded_text), decoded_bytes, cc)

\* steps 5 to 9 of decompress_bytes, on the instance as make_codes left it
DecodeBody(self, rt, frequency, file_bytes, ptr, has_password, password_attempt) ==
  LET raw == Slice(file_bytes, ptr, Len(file_bytes))
      body_bytes == IF has_password THEN SimpleEncryptDecrypt(raw, password_attempt)
                    ELSE raw
      bit_string == Concat([i \in DOMAIN body_bytes |-> Format08b(body_bytes[i])])
  IN  IF bit_string = <<>> THEN Outcome(self, "ok", <<>>, rt, 8, <<>>, frequency)
      ELSE LET extra_padding == IntBase2(Slice(bit_string, 0, 8))
               rest == Slice(bit_string, 8, Len(bit_string))
               encoded_text == IF extra_padding # 0
                               THEN Slice(rest, 0, Len(rest) - extra_padding)
                               ELSE rest
               d == Decode(self.reverse_mapping, encoded_text, <<>>, <<>>)
           IN  Outcome(self, "ok", d.decoded_bytes, rt, 9, d.current_code, frequency)

\* a variant of PasswordRejected: only a missing attempt is refused
PasswordRejectedMissingOnly(has_password, stored_hash, password_attempt) ==
  has_password /\ ~Truthy(password_attempt)

\* step 2 of decompress_bytes: TRUE where it raises ValueError ("Password
\* required" for a missing attempt, "Invalid Password" for a digest mismatch)
PasswordRejected(has_password, stored_hash, password_attempt) ==
  has_password /\ (~Truthy(password_attempt)
                     \/ Sha256Digest(password_attempt[1]) # stored_hash)

\* decompress_bytes(file_bytes, password_attempt)
DecompressBytes(self, file_bytes, password_attempt) ==
  IF file_bytes = <<>> THEN Outcome(self, "IndexError", <<>>, None, 1, <<>>, <<>>)
  ELSE
  LET has_password == file_bytes[1] = 1
      stored_hash == Slice(file_bytes, 1, 33)
  IN  IF PasswordRejected(has_password, stored_hash, password_attempt)
      THEN Outcome(self, "ValueError", <<>>, None, 2, <<>>, <<>>)
      ELSE
      LET freq_len == FromBytes(Slice(file_bytes, 33, 37))
          freq_dump == Slice(file_bytes, 37, 37 + freq_len)
          ptr == 37 + freq_len
          loaded == PickleLoads(freq_dump)
      IN  IF ~loaded.ok THEN Outcome(self, "UnpicklingError", <<>>, None, 3, <<>>, <<>>)
          ELSE LET built == [self EXCEPT
                               !.heap = MergeNodes(MakeHeap(<<>>, loaded.value))]
                   mc == MakeCodes(built)
               IN  IF ~mc.ok THEN Outcome(mc.self, "IndexError", <<>>, None, 4, <<>>, loaded.value)
                   ELSE DecodeBody(mc.self, mc.root, loaded.value, file_bytes, ptr,
                                   has_password, password_attempt)

-----------------------------------------------------------------------------
(* Inputs.                                                                 *)

SeqsUpTo(S, n) == UNION {[1..k -> S] : k \in 0..n}

Inputs == SeqsUpTo(0..(NumSymbols - 1), MaxLen)

\* passwords: None, "", "a", "bc"
Passwords == {None, Some(<<>>), Some(<<97>>), Some(<<98, 99>>)}

\* SpecReuse draws from a fixed three-symbol alphabet and two passwords
ReuseInputs == SeqsUpTo({0, 1, 2}, ReuseLen)

ReusePasswords == {None, Some(<<97>>)}

\* a damaged file: the first byte of the body overwritten with p (None: intact)
Tampers == {None} \cup {Some(p) : p \in {0, 1, 7}}

Tamper(file_bytes, t) ==
  LET at == 37 + FromBytes(Slice(file_bytes, 33, 37)) + 1
  IN  IF t = None \/ at > Len(file_bytes) THEN file_bytes
      ELSE [file_bytes EXCEPT ![at] = t[1]]

\* the state HuffmanCoding.__init__ leaves
Fresh == [heap |-> <<>>, codes |-> EmptyDict, reverse_mapping |-> EmptyDict]

\* the container spec.md describes for the empty input: no password, the
\* serialization of an empty table, an empty body
EmptyContainer == Header(<<>>, None)

NoCall ==
  [op |-> "none", file_bytes |-> <<>>, password |-> None,
   src |-> [bytes |-> <<>>, password |-> None, tamper |-> None],
   before |-> Fresh, status |-> "none", value |-> <<>>, step |-> 0,
   current_code |-> <<>>, frequency |-> <<>>]

-----------------------------------------------------------------------------
(* The state machine: one HuffmanCoding instance and the calls made on it. *)
(* last describes the latest call: its arguments, the instance as the call *)
(* found it (before), and its outcome.  For decompress_bytes, src tells    *)
(* how the file was made: compress_bytes(src.bytes, src.password) on a     *)
(* fresh instance, then src.tamper.                                        *)

Self == [heap |-> heap, codes |-> codes, reverse_mapping |-> reverse_mapping]

Init ==
  /\ heap = <<>>
  /\ codes = EmptyDict
  /\ reverse_mapping = EmptyDict
  /\ calls = 0
  /\ last = NoCall
  /\ root = None

\* HuffmanCoding(): the caller drops the instance and constructs a new one
New ==
  /\ heap' = <<>>
  /\ codes' = EmptyDict
  /\ reverse_mapping' = EmptyDict
  /\ calls' = 0
  /\ last' = NoCall
  /\ root' = None

Finish(op, file_bytes, password, src, r) ==
  /\ heap' = r.self.heap
  /\ codes' = r.self.codes
  /\ reverse_mapping' = r.self.reverse_mapping
  /\ root' = r.root
  /\ calls' = calls + 1
  /\ last' = [op |-> op, file_bytes |-> file_bytes, password |-> password,
              src |-> src, before |-> Self, status |-> r.status, value |-> r.value,
              step |-> r.step, current_code |-> r.current_code,
              frequency |-> r.frequency]

\* self.compress_bytes(file_bytes, password)
Compress(file_bytes, password) ==
  Finish("compress", file_bytes, password,
         [bytes |-> file_bytes, password |-> password, tamper |-> None],
         CompressBytes(Self, file_bytes, password))

\* self.decompress_bytes(file_bytes, password_attempt)
Decompress(file_bytes, password_attempt, src) ==
  Finish("decompress", file_bytes, password_attempt, src,
         DecompressBytes(Self, file_bytes, password_attempt))

\* decompress_bytes on a file that compress_bytes(B, pw) returned, possibly damaged
DecompressMade(B, pw, t, password_attempt) ==
  LET made == CompressBytes(Fresh, B, pw)
  IN  /\ made.status = "ok"
      /\ Decompress(Tamper(made.value, t), password_attempt,
                    [bytes |-> B, password |-> pw, tamper |-> t])

\* decompress_bytes on the container of the empty input
DecompressEmpty(password_attempt) ==
  Decompress(EmptyContainer, password_attempt,
             [bytes |-> <<>>, password |-> None, tamper |-> None])

\* the caller takes the result of the call
Return ==
  /\ last # NoCall
  /\ last' = NoCall
  /\ root' = None
  /\ UNCHANGED <<heap, codes, reverse_mapping, calls>>

\* app.py: every call is made on an instance constructed for it
Next ==
  \/ New
  \/ /\ calls = 0
     /\ \E B \in Inputs, pw \in Passwords : Compress(B, pw)
  \/ /\ calls = 0
     /\ \E B \in Inputs, pw \in Passwords, a \in Passwords :
          \E t \in (IF Truthy(pw) THEN {None} ELSE Tampers) : DecompressMade(B, pw, t, a)
  \/ /\ calls = 0
     /\ \E a \in Passwords : DecompressEmpty(a)

Spec == Init /\ [][Next]_vars

\* one instance serving up to MaxCalls calls
NextReuse ==
  \/ New
  \/ Return
  \/ /\ last = NoCall /\ calls < MaxCalls
     /\ \E B \in ReuseInputs, pw \in ReusePasswords : Compress(B, pw)
  \/ /\ last = NoCall /\ calls < MaxCalls
     /\ \E B \in ReuseInputs, pw \in ReusePasswords, a \in ReusePasswords :
          DecompressMade(B, pw, None, a)

SpecReuse == Init /\ [][NextReuse]_vars

-----------------------------------------------------------------------------
(* Vocabulary of the properties.                                           *)

IsPrefix(a, b) == Len(a) <= Len(b) /\ SubSeq(b, 1, Len(a)) = a

IsLeaf(n) == n.left = None /\ n.right = None

RECURSIVE TreeLeaves(_)
TreeLeaves(n) ==
  IF IsLeaf(n) THEN <<n>>
  ELSE (IF n.left = None THEN <<>> ELSE TreeLeaves(n.left[1]))
       \o (IF n.right = None THEN <<>> ELSE TreeLeaves(n.right[1]))

RECURSIVE TreeSize(_)
TreeSize(n) ==
  1 + (IF n.left = None THEN 0 ELSE TreeSize(n.left[1]))
    + (IF n.right = None THEN 0 ELSE TreeSize(n.right[1]))

\* a leaf carries a symbol; an internal node carries none, has two children,
\* the sum of their frequencies, and the lighter-or-equal child on the left
RECURSIVE TreeWellFormed(_)
TreeWellFormed(n) ==
  IF IsLeaf(n) THEN n.char # None
  ELSE /\ n.char = None
       /\ n.left # None /\ n.right # None
       /\ n.freq = n.left[1].freq + n.right[1].freq
       /\ n.left[1].freq <= n.right[1].freq
       /\ TreeWellFormed(n.left[1])
       /\ TreeWellFormed(n.right[1])

\* the symbols of the table of the latest call
TableSymbols == {last.frequency[i][1] : i \in DOMAIN last.frequency}

\* the packed body inside a container: what follows the table, de-obfuscated
PackedBodyOf(out, password) ==
  SimpleEncryptDecrypt(Slice(out, 37 + FromBytes(Slice(out, 33, 37)), Len(out)), password)

\* the latest call was decompress_bytes on an intact file with the password
\* the file was made with
HonestDecompress ==
  /\ last.op = "decompress"
  /\ last.src.tamper = None
  /\ last.password = last.src.password

\* the latest call was decompress_bytes on a file that declares a password,
\* with no attempt or with an attempt of another digest
BadAttempt ==
  /\ last.op = "decompress"
  /\ last.file_bytes # <<>>
  /\ last.file_bytes[1] = 1
  /\ \/ ~Truthy(last.password)
     \/ Sha256Digest(last.password[1]) # Slice(last.file_bytes, 1, 33)

-----------------------------------------------------------------------------
(* The claims.                                                             *)

\* C1: decompress_bytes(compress_bytes(B, pw), pw) returns exactly B, for every
\* B (empty, a single byte and one repeated byte included) and every pw.
C1_RoundTrip ==
  HonestDecompress => (last.status = "ok" /\ last.value = last.src.bytes)

\* C2: on a file whose password flag is set, a missing attempt or an attempt
\* of another digest makes decompress_bytes raise the authentication error
\* (ValueError at step 2); no bytes are returned, no frequency table is read,
\* no tree is built (heap, codes and reverse_mapping stay as they were, no root
\* is popped) and the decode loop never runs.
C2_AuthFailsBeforeDecode ==
  BadAttempt =>
    /\ last.status = "ValueError"
    /\ last.value = <<>>
    /\ last.step = 2
    /\ last.frequency = <<>>
    /\ last.current_code = <<>>
    /\ root = None
    /\ Self = last.before

\* C2's case: a wrong, non-empty attempt on a password-protected file was refused
C2_Witness ==
  /\ BadAttempt
  /\ Truthy(last.password)
  /\ Truthy(last.src.password)
  /\ last.status = "ValueError"

\* C3: compress_bytes of the empty input returns the container of an empty
\* table and an empty body, and decompress_bytes of that container returns the
\* empty sequence.
C3_EmptyInput ==
  /\ (last.op = "compress" /\ last.file_bytes = <<>>)
        => (last.status = "ok" /\ last.value = EmptyContainer)
  /\ (last.op = "decompress" /\ last.file_bytes = EmptyContainer)
        => (last.status = "ok" /\ last.value = <<>>)

\* C4: compress_bytes is a function of its arguments alone: whatever calls the
\* instance served before, the call ends as it does on a new instance, with
\* the same container; and the tree it codes with is the one the frequency
\* table alone (contents and iteration order) yields.
C4_Deterministic ==
  last.op = "compress" =>
    LET fresh == CompressBytes(Fresh, last.file_bytes, last.password)
        tree == MakeCodes([Fresh EXCEPT
                             !.heap = MergeNodes(MakeHeap(<<>>, last.frequency))])
    IN  /\ last.status = fresh.status
        /\ last.value = fresh.value
        /\ root = tree.root

\* C4's case: compress_bytes returned on an instance whose earlier call had
\* given some symbol of this input another code
C4_Witness ==
  /\ last.op = "compress"
  /\ last.status = "ok"
  /\ \E c \in (DOMAIN last.before.codes) \cap TableSymbols :
        last.before.codes[c] # codes[c]

\* C5: a bitstream that ends inside a code (the decode loop ends with a
\* non-empty candidate) makes decompress_bytes fail; no bytes are returned.
\* Stated for tables of two or more symbols, where every code has a bit.
C5_MidCodeIsError ==
  (last.op = "decompress" /\ Len(last.frequency) >= 2 /\ last.current_code # <<>>)
    => last.status # "ok"

\* C6: the first byte of the packed body is the number of padding bits and
\* lies in 0..7; an encoded bitstream whose length is a multiple of 8 gets a
\* count of 0 and no byte beyond its own.  Stated for inputs of two or more
\* distinct symbols, where every code has a bit.
C6_PaddingCount ==
  (last.op = "compress" /\ last.status = "ok" /\ Len(last.frequency) >= 2) =>
    LET body == PackedBodyOf(last.value, last.password)
        bits == Len(GetEncodedText(codes, last.file_bytes))
    IN  /\ body # <<>>
        /\ body[1] \in 0..7
        /\ (bits + body[1]) % 8 = 0
        /\ Len(body) = 1 + (bits + body[1]) \div 8

\* C7: the container is, in this order: the flag byte (1 for a non-empty
\* password, else 0), the 32-byte digest of the password (zeros without one),
\* the 4-byte big-endian length L of the serialized frequency table, its L
\* bytes, and the packed body, XOR-ed with the cycled password when the flag
\* is 1 and as packed when it is 0.
C7_ContainerLayout ==
  (last.op = "compress" /\ last.status = "ok") =>
    LET out == last.value
        flag == IF Truthy(last.password) THEN 1 ELSE 0
        freq_dump == PickleDumps(MakeFrequencyDict(last.file_bytes))
        L == Len(freq_dump)
        packed == GetByteArray(PadEncodedText(GetEncodedText(codes, last.file_bytes)))
        body == Slice(out, 37 + L, Len(out))
    IN  /\ Len(out) = 37 + L + Len(packed)
        /\ out[1] = flag
        /\ Slice(out, 1, 33) = (IF flag = 1 THEN Sha256Digest(last.password[1])
                                ELSE Zeros(32))
        /\ FromBytes(Slice(out, 33, 37)) = L
        /\ Slice(out, 37, 37 + L) = freq_dump
        /\ IF flag = 1
           THEN LET key == last.password[1]
                IN  body = [i \in DOMAIN packed |->
                              BitXor(packed[i], key[((i - 1) % Len(key)) + 1])]
           ELSE body = packed

\* C7's case: a container made with a password from an input of two or more
\* distinct symbols
C7_Witness ==
  /\ last.op = "compress"
  /\ last.status = "ok"
  /\ Truthy(last.password)
  /\ Len(last.frequency) >= 2

\* C8: for a table of k >= 1 symbols every symbol has one code, every code has
\* at least one bit, no code is a prefix of another, and reverse_mapping is
\* the inverse of codes.
C8_CodeTable ==
  (last.op # "none" /\ last.status = "ok" /\ Len(last.frequency) >= 1) =>
    /\ DOMAIN codes = TableSymbols
    /\ \A c \in TableSymbols : Len(codes[c]) >= 1
    /\ \A c \in TableSymbols : \A d \in TableSymbols \ {c} : ~IsPrefix(codes[c], codes[d])
    /\ DOMAIN reverse_mapping = {codes[c] : c \in TableSymbols}
    /\ \A c \in TableSymbols : reverse_mapping[codes[c]] = c

\* C9: decompress_bytes ends, and returns, as it does on a new instance,
\* whatever calls the instance served before.
C9_CallsIndependent ==
  last.op = "decompress" =>
    LET fresh == DecompressBytes(Fresh, last.file_bytes, last.password)
    IN  last.status = fresh.status /\ last.value = fresh.value

\* C10: for a table of k >= 2 symbols the merge loop leaves one node, the root
\* (the heap is empty once make_codes has popped it); the tree under it has one
\* leaf per symbol of the table, with its count, 2k-1 nodes, and every
\* internal node has no symbol, the sum of its children's frequencies and the
\* first-extracted (lighter or equal) child on the left.
C10_Tree ==
  (last.op # "none" /\ last.status = "ok" /\ Len(last.frequency) >= 2) =>
    /\ heap = <<>>
    /\ root # None
    /\ LET leaves == TreeLeaves(root[1])
           k == Len(last.frequency)
       IN  /\ Len(leaves) = k
           /\ {<<leaves[i].char, leaves[i].freq>> : i \in DOMAIN leaves}
                = {<<Some(last.frequency[i][1]), last.frequency[i][2]>> : i \in 1..k}
           /\ TreeSize(root[1]) = 2 * k - 1
           /\ TreeWellFormed(root[1])

\* C10's case: a tree of three or more leaves, whose root has an internal child
\* heavier than its sibling leaf
C10_Witness ==
  /\ last.op # "none"
  /\ last.status = "ok"
  /\ Len(last.frequency) >= 3
  /\ root # None
  /\ ~IsLeaf(root[1])
  /\ IsLeaf(root[1].left[1])
  /\ ~IsLeaf(root[1].right[1])
  /\ root[1].left[1].freq < root[1].right[1].freq

====
